---- MODULE Spec2Model ----
(***************************************************************************)
(* A model of the trip planner: the Hours-of-Service scheduler of          *)
(* trips/hos.py, the segment planner of plan_trip in trips/views.py and    *)
(* the route client of trips/ors_client.py, and plan_trip itself with the  *)
(* DailyRod table of trips/models.py.                                      *)
(*                                                                         *)
(* Time is counted in whole minutes: an instant is the number of minutes   *)
(* since local midnight of day 0, a duration is a number of minutes.  All  *)
(* durations fed to the scheduler alone are multiples of a quarter of an   *)
(* hour, which binary floating point represents exactly, so the integer    *)
(* arithmetic of the model is the arithmetic of the program.               *)
(***************************************************************************)
EXTENDS Integers, Sequences, FiniteSets, TLC

VARIABLES
    start_time,          \* argument: the instant the trip starts
    segments,            \* argument: the list of segments
    weekly_used,         \* argument: hours already used in the 8-day cycle
    pc,                  \* position in hos_scheduler
    seg_index,           \* index of the segment the for loop is at
    remaining_duration,  \* the while loops' remaining_duration
    day_start,
    current_time,
    daily_logs,
    daily_entries,
    daily_driving,
    daily_on_duty,
    daily_off_duty,
    weekly_hours,
    consecutive_driving,
    route_data,          \* plan_trip: the route the segments are planned from
    request,             \* get_route: the three coordinates asked for
    mapbox_available,    \* get_route: settings.MAPBOX_ACCESS_TOKEN is set
    ors_available,       \* get_route: settings.ORS_API_KEY is set
    route_pc,            \* position in get_route
    attempts,            \* the providers get_route has called, in order
    route_result,        \* what get_route returns
    rods,                \* the DailyRod table, a set of records
    handlers,            \* the plan_trip requests being served, by slot
    served,              \* the number of requests received so far
    last_upsert          \* history: the slot that last upserted (driver, date)

\* the state of the route client
client == <<request, mapbox_available, ors_available, route_pc, attempts,
            route_result>>

\* the state of the web layer
web == <<rods, handlers, served, last_upsert>>

vars == <<start_time, segments, weekly_used, pc, seg_index, remaining_duration,
          day_start, current_time, daily_logs, daily_entries, daily_driving,
          daily_on_duty, daily_off_duty, weekly_hours, consecutive_driving,
          route_data, client, web>>

\* what hos_scheduler reads and never writes
inputs == <<start_time, segments, weekly_used, route_data, client, web>>

----------------------------------------------------------------------------
(* Units and the program's constants.                                      *)

Hour == 60
Day == 24 * Hour

\* a limit that 70 hours used already exceed
WeeklyLimitInclusive == 70 * Hour - 1

WeeklyLimit == 70 * Hour          \* if weekly_hours > 70.0
RestartDuration == 34 * Hour      \* restart_duration = 34.0
DrivingLimit == 11 * Hour         \* if daily_driving + duration > 11.0
RestBreakDuration == 10 * Hour    \* break_duration = 10.0
ConsecutiveLimit == 8 * Hour      \* if consecutive_driving + duration > 8.0
ShortBreakDuration == Hour \div 2 \* break_duration = 0.5
OnDutyLimit == 14 * Hour          \* if daily_on_duty + duration > 14.0
ResetDuration == 10 * Hour        \* break_duration = 10.0 (on_duty branch)

----------------------------------------------------------------------------
(* Bounds of the model and the inputs it is run on.                        *)

MaxSegments == 2

StartTimes == {0, 8 * Hour, 20 * Hour, 22 * Hour, 23 * Hour + 45}

WeeklyUsedValues == {0, 69 * Hour, 70 * Hour, 75 * Hour}

Durations ==
    {0, Hour \div 4, Hour, 4 * Hour, 5 * Hour, 9 * Hour, 11 * Hour, 12 * Hour}

SegmentTypes == {"drive", "on_duty", "off_duty"}

SegmentLocation(type) ==
    CASE type = "drive" -> "Route"
      [] type = "on_duty" -> "Dock"
      [] OTHER -> "Rest Area"

SegmentInputs ==
    {[type |-> t, duration |-> d, location |-> SegmentLocation(t)] :
        t \in SegmentTypes, d \in Durations}

Segment(type, duration) ==
    [type |-> type, duration |-> duration, location |-> SegmentLocation(type)]

\* the pickup, the route and the drop-off of a one-day trip
OneDayTrip ==
    <<Segment("on_duty", Hour), Segment("drive", 5 * Hour),
      Segment("on_duty", Hour)>>

\* a rest that lasts longer than a day
LongRest == <<Segment("off_duty", 30 * Hour)>>

\* a day whose driving brings on a rest at 14:00 when started at 08:00
RestToMidnight ==
    <<Segment("drive", 5 * Hour), Segment("on_duty", Hour),
      Segment("drive", 9 * Hour)>>

SegmentLists ==
    UNION {[1..n -> SegmentInputs] : n \in 0..MaxSegments}
        \cup {OneDayTrip, LongRest, RestToMidnight}

----------------------------------------------------------------------------
(* datetime helpers.                                                       *)

\* datetime.date(): the calendar day of an instant, as a day number
DateOf(t) == t \div Day

\* datetime.replace(hour=0, minute=0, second=0, microsecond=0)
FloorToDay(t) == (t \div Day) * Day

\* datetime.strftime('%H:%M'): hour and minute of the day, the date dropped
StrfTime(t) == <<(t % Day) \div Hour, t % Hour>>

\* the literal '24:00'
EndOfDay == <<24, 0>>

Entry(st, et, status, location, duration) ==
    [start_time |-> st, end_time |-> et, status |-> status,
     location |-> location, duration |-> duration]

DailyLog(dstart, entries, driving, on_duty, off_duty) ==
    [date |-> DateOf(dstart), entries |-> entries,
     totals |-> [driving_hours |-> driving, on_duty_hours |-> on_duty,
                 off_duty_hours |-> off_duty]]

\* the entry an inserted break or restart appends
BreakEntry(t, location, duration) ==
    Entry(StrfTime(t), StrfTime(t + duration), "off_duty", location, duration)

\* a chunk that is never cut at midnight
SegmentDurationUncut(remaining, time_left_in_day) == remaining

\* a chunk that always runs to midnight
SegmentDurationToMidnight(remaining, time_left_in_day) == time_left_in_day

\* a chunk that consumes nothing
SegmentDurationNone(remaining, time_left_in_day) == 0

\* segment_duration = min(remaining_duration, time_left_in_day)
SegmentDuration(remaining, time_left_in_day) ==
    IF remaining < time_left_in_day THEN remaining ELSE time_left_in_day

----------------------------------------------------------------------------
(* The state the day-rollover block works on, and the block itself.        *)

DayState ==
    [day_start |-> day_start, daily_logs |-> daily_logs,
     daily_entries |-> daily_entries, daily_driving |-> daily_driving,
     daily_on_duty |-> daily_on_duty, daily_off_duty |-> daily_off_duty]

\* "if current_time.date() != day_start.date()": save the open day, open the
\* day of current_time and fill it from midnight to current_time
CrossMidnight(s, now) ==
    IF DateOf(now) # DateOf(s.day_start)
    THEN LET new_start == FloorToDay(now)
             filler == now - new_start
         IN  [day_start |-> new_start,
              daily_logs |-> Append(s.daily_logs,
                                DailyLog(s.day_start, s.daily_entries,
                                         s.daily_driving, s.daily_on_duty,
                                         s.daily_off_duty)),
              daily_entries |->
                  IF now > new_start
                  THEN <<Entry(<<0, 0>>, StrfTime(now), "off_duty",
                               "Off Duty", filler)>>
                  ELSE <<>>,
              daily_driving |-> 0,
              daily_on_duty |-> 0,
              daily_off_duty |-> IF now > new_start THEN filler ELSE 0]
    ELSE s

----------------------------------------------------------------------------
(* hos_scheduler, one action per block of the function.                    *)

\* no route: hos_scheduler is called on segments of the caller's own
NoRoute == [distance |-> 0, duration |-> 0]

\* the route client is not in use
ClientIdle ==
    /\ request = <<>>
    /\ mapbox_available = FALSE
    /\ ors_available = FALSE
    /\ route_pc = "idle"
    /\ attempts = <<>>
    /\ route_result = NoRoute

\* the slots plan_trip requests are served in
Slots == {1, 2}

\* a slot with no request in it
IdleHandler == [phase |-> "idle"]

\* no request is being served and the DailyRod table is empty
WebIdle ==
    /\ rods = {}
    /\ handlers = [id \in Slots |-> IdleHandler]
    /\ served = 0
    /\ last_upsert = <<>>

\* the scheduler's variables before hos_scheduler is entered
SchedulerIdle ==
    /\ seg_index = 1
    /\ remaining_duration = 0
    /\ day_start = 0
    /\ current_time = 0
    /\ daily_logs = <<>>
    /\ daily_entries = <<>>
    /\ daily_driving = 0
    /\ daily_on_duty = 0
    /\ daily_off_duty = 0
    /\ weekly_hours = 0
    /\ consecutive_driving = 0

Init ==
    /\ start_time \in StartTimes
    /\ segments \in SegmentLists
    /\ weekly_used \in WeeklyUsedValues
    /\ route_data = NoRoute
    /\ ClientIdle
    /\ WebIdle
    /\ pc = "start"
    /\ seg_index = 1
    /\ remaining_duration = 0
    /\ day_start = 0
    /\ current_time = 0
    /\ daily_logs = <<>>
    /\ daily_entries = <<>>
    /\ daily_driving = 0
    /\ daily_on_duty = 0
    /\ daily_off_duty = 0
    /\ weekly_hours = 0
    /\ consecutive_driving = 0

\* no entry for the time before the start
InitialOffDutyNone == <<>>

\* the initial off-duty entry from midnight to the start time
InitialOffDuty ==
    IF start_time > FloorToDay(start_time)
    THEN <<Entry(<<0, 0>>, StrfTime(start_time), "off_duty", "Off Duty",
                 start_time - FloorToDay(start_time))>>
    ELSE <<>>

\* lines 22-60: the set-up, the initial off-duty period and the 70-hour rule
Preamble ==
    /\ pc = "start"
    /\ day_start' = FloorToDay(start_time)
    /\ daily_logs' = <<>>
    /\ daily_driving' = 0
    /\ daily_on_duty' = 0
    /\ consecutive_driving' = 0
    /\ IF weekly_used > WeeklyLimit
       THEN /\ daily_entries' =
                  Append(InitialOffDuty,
                         BreakEntry(start_time, "34-hour Restart",
                                    RestartDuration))
            /\ daily_off_duty' =
                  (start_time - FloorToDay(start_time)) + RestartDuration
            /\ current_time' = start_time + RestartDuration
            /\ weekly_hours' = 0
       ELSE /\ daily_entries' = InitialOffDuty
            /\ daily_off_duty' = start_time - FloorToDay(start_time)
            /\ current_time' = start_time
            /\ weekly_hours' = weekly_used
    /\ seg_index' = 1
    /\ pc' = "segment"
    /\ UNCHANGED <<inputs, remaining_duration>>

\* the for loop has a segment left, of the given type
AtSegment(type) ==
    /\ pc = "segment"
    /\ seg_index <= Len(segments)
    /\ segments[seg_index].type = type

SetDay(s) ==
    /\ day_start' = s.day_start
    /\ daily_logs' = s.daily_logs
    /\ daily_entries' = s.daily_entries
    /\ daily_driving' = s.daily_driving
    /\ daily_on_duty' = s.daily_on_duty
    /\ daily_off_duty' = s.daily_off_duty

\* lines 63-140: the top of a loop iteration for a drive segment: the day
\* check, the 11-hour check and the 8-hour check
BeginDrive ==
    /\ AtSegment("drive")
    /\ LET duration == segments[seg_index].duration
           s == CrossMidnight(DayState, current_time)
           rest == s.daily_driving + duration > DrivingLimit
           t1 == IF rest THEN current_time + RestBreakDuration
                 ELSE current_time
           e1 == IF rest
                 THEN Append(s.daily_entries,
                             BreakEntry(current_time, "Rest Break (10 hours)",
                                        RestBreakDuration))
                 ELSE s.daily_entries
           off1 == IF rest THEN s.daily_off_duty + RestBreakDuration
                   ELSE s.daily_off_duty
           drv1 == IF rest THEN 0 ELSE s.daily_driving
           con1 == IF rest THEN 0 ELSE consecutive_driving
           brk == con1 + duration > ConsecutiveLimit
       IN  /\ day_start' = s.day_start
           /\ daily_logs' = s.daily_logs
           /\ daily_on_duty' = s.daily_on_duty
           /\ daily_driving' = drv1
           /\ daily_entries' =
                 IF brk
                 THEN Append(e1, BreakEntry(t1, "30-min Break",
                                            ShortBreakDuration))
                 ELSE e1
           /\ daily_off_duty' =
                 IF brk THEN off1 + ShortBreakDuration ELSE off1
           /\ current_time' = IF brk THEN t1 + ShortBreakDuration ELSE t1
           /\ consecutive_driving' = IF brk THEN 0 ELSE con1
           /\ remaining_duration' = duration
    /\ pc' = "drive"
    /\ UNCHANGED <<inputs, seg_index, weekly_hours>>

\* lines 141-197: one iteration of the drive segment's while loop
DriveChunk ==
    /\ pc = "drive"
    /\ remaining_duration > 0
    /\ LET s == CrossMidnight(DayState, current_time)
           day_end == s.day_start + Day
           time_left_in_day == day_end - current_time
           segment_duration ==
               SegmentDuration(remaining_duration, time_left_in_day)
       IN  /\ day_start' = s.day_start
           /\ daily_logs' = s.daily_logs
           /\ daily_entries' =
                 Append(s.daily_entries,
                        Entry(StrfTime(current_time),
                              StrfTime(current_time + segment_duration),
                              "driving", segments[seg_index].location,
                              segment_duration))
           /\ daily_driving' = s.daily_driving + segment_duration
           /\ daily_on_duty' = s.daily_on_duty + segment_duration
           /\ daily_off_duty' = s.daily_off_duty
           /\ consecutive_driving' = consecutive_driving + segment_duration
           /\ current_time' = current_time + segment_duration
           /\ remaining_duration' = remaining_duration - segment_duration
    /\ UNCHANGED <<inputs, pc, seg_index, weekly_hours>>

\* lines 203-220: the top of a loop iteration for an on_duty segment: the
\* day check and the 14-hour check
BeginOnDuty ==
    /\ AtSegment("on_duty")
    /\ LET duration == segments[seg_index].duration
           s == CrossMidnight(DayState, current_time)
           reset == s.daily_on_duty + duration > OnDutyLimit
       IN  /\ day_start' = s.day_start
           /\ daily_logs' = s.daily_logs
           /\ daily_driving' = s.daily_driving
           /\ daily_entries' =
                 IF reset
                 THEN Append(s.daily_entries,
                             BreakEntry(current_time, "14-hour Reset",
                                        ResetDuration))
                 ELSE s.daily_entries
           /\ daily_off_duty' =
                 IF reset THEN s.daily_off_duty + ResetDuration
                 ELSE s.daily_off_duty
           /\ current_time' =
                 IF reset THEN current_time + ResetDuration ELSE current_time
           /\ daily_on_duty' = IF reset THEN 0 ELSE s.daily_on_duty
           /\ remaining_duration' = duration
    /\ pc' = "on_duty"
    /\ UNCHANGED <<inputs, seg_index, weekly_hours, consecutive_driving>>

\* lines 221-275: one iteration of the on_duty segment's while loop
OnDutyChunk ==
    /\ pc = "on_duty"
    /\ remaining_duration > 0
    /\ LET s == CrossMidnight(DayState, current_time)
           day_end == s.day_start + Day
           time_left_in_day == day_end - current_time
           segment_duration ==
               SegmentDuration(remaining_duration, time_left_in_day)
       IN  /\ day_start' = s.day_start
           /\ daily_logs' = s.daily_logs
           /\ daily_entries' =
                 Append(s.daily_entries,
                        Entry(StrfTime(current_time),
                              StrfTime(current_time + segment_duration),
                              "on_duty", segments[seg_index].location,
                              segment_duration))
           /\ daily_driving' = s.daily_driving
           /\ daily_on_duty' = s.daily_on_duty + segment_duration
           /\ daily_off_duty' = s.daily_off_duty
           /\ current_time' = current_time + segment_duration
           /\ remaining_duration' = remaining_duration - segment_duration
    /\ UNCHANGED <<inputs, pc, seg_index, weekly_hours, consecutive_driving>>

\* lines 63-102, 281-283: the top of a loop iteration for an off_duty segment
BeginOffDuty ==
    /\ AtSegment("off_duty")
    /\ SetDay(CrossMidnight(DayState, current_time))
    /\ remaining_duration' = segments[seg_index].duration
    /\ pc' = "off_duty"
    /\ UNCHANGED <<inputs, seg_index, current_time, weekly_hours,
                   consecutive_driving>>

\* lines 284-339: one iteration of the off_duty segment's while loop
OffDutyChunk ==
    /\ pc = "off_duty"
    /\ remaining_duration > 0
    /\ LET s == CrossMidnight(DayState, current_time)
           day_end == s.day_start + Day
           time_left_in_day == day_end - current_time
           segment_duration ==
               SegmentDuration(remaining_duration, time_left_in_day)
       IN  /\ day_start' = s.day_start
           /\ daily_logs' = s.daily_logs
           /\ daily_entries' =
                 Append(s.daily_entries,
                        Entry(StrfTime(current_time),
                              StrfTime(current_time + segment_duration),
                              "off_duty", segments[seg_index].location,
                              segment_duration))
           /\ daily_driving' = s.daily_driving
           /\ daily_on_duty' = s.daily_on_duty
           /\ daily_off_duty' = s.daily_off_duty + segment_duration
           /\ current_time' = current_time + segment_duration
           /\ remaining_duration' = remaining_duration - segment_duration
           /\ consecutive_driving' = 0
    /\ UNCHANGED <<inputs, pc, seg_index, weekly_hours>>

\* the while loop of the current segment ends; the for loop moves on
EndSegment ==
    /\ pc \in {"drive", "on_duty", "off_duty"}
    /\ ~(remaining_duration > 0)
    /\ seg_index' = seg_index + 1
    /\ pc' = "segment"
    /\ UNCHANGED <<inputs, remaining_duration, day_start, current_time,
                   daily_logs, daily_entries, daily_driving, daily_on_duty,
                   daily_off_duty, weekly_hours, consecutive_driving>>

\* lines 345-391: the final off-duty period, the weekly hours and the last day
Postamble ==
    /\ pc = "segment"
    /\ seg_index > Len(segments)
    /\ LET day_end == day_start + Day
           fill == current_time < day_end
           final_off_duty_duration == day_end - current_time
           entries ==
               IF fill
               THEN Append(daily_entries,
                           Entry(StrfTime(current_time), EndOfDay, "off_duty",
                                 "Off Duty", final_off_duty_duration))
               ELSE daily_entries
           off_duty ==
               IF fill THEN daily_off_duty + final_off_duty_duration
               ELSE daily_off_duty
       IN  /\ daily_entries' = entries
           /\ daily_off_duty' = off_duty
           /\ weekly_hours' = weekly_hours + daily_on_duty
           /\ daily_logs' =
                 Append(daily_logs,
                        DailyLog(day_start, entries, daily_driving,
                                 daily_on_duty, off_duty))
    /\ pc' = "done"
    /\ UNCHANGED <<inputs, seg_index, remaining_duration, day_start,
                   current_time, daily_driving, daily_on_duty,
                   consecutive_driving>>

Next ==
    \/ Preamble
    \/ BeginDrive
    \/ DriveChunk
    \/ BeginOnDuty
    \/ OnDutyChunk
    \/ BeginOffDuty
    \/ OffDutyChunk
    \/ EndSegment
    \/ Postamble

Spec == Init /\ [][Next]_vars

\* hos_scheduler runs to its return: a call that can take a step takes it
SpecFair == Spec /\ WF_vars(Next)

----------------------------------------------------------------------------
(* The segment planner of plan_trip (views.py 91-175).  A route is a       *)
(* distance in miles and a duration in minutes; the routes the model plans *)
(* are those whose proportional shares are whole miles and minutes.        *)

max_driving_hours == 11 * Hour    \* max_driving_hours = 11.0
SlabMiles == 1000                 \* min(remaining_distance, 1000.0)
FuelingDuration == Hour \div 2    \* 'duration': 0.5
PlannedRestDuration == 10 * Hour  \* 'duration': 10.0
PickupDuration == Hour            \* 'duration': 1.0 (pickup)
DropoffDuration == Hour           \* 'duration': 1.0 (dropoff)

Route(miles, minutes) == [distance |-> miles, duration |-> minutes]

Routes ==
    {Route(0, 0), Route(300, 6 * Hour), Route(1000, 11 * Hour),
     Route(1500, 9 * Hour), Route(2500, 10 * Hour), Route(600, 12 * Hour),
     Route(1100, 22 * Hour), Route(1500, 30 * Hour)}

PlanStartTimes == {h * Hour : h \in 0..23}

PlanWeeklyUsedValues == {0, 40 * Hour}

PlannedSegment(type, duration, location) ==
    [type |-> type, duration |-> duration, location |-> location]

\* f'Route Segment {segment_number} ({miles:.1f} mi)', for whole miles
RouteSegmentLocation(segment_number, miles) ==
    "Route Segment " \o ToString(segment_number) \o " ("
        \o ToString(miles) \o ".0 mi)"

\* a fueling stop after every slab, the last one too
FuelingFollowsAlways(current_distance, total_distance) == TRUE

\* "if current_distance < total_distance": a fueling stop follows the slab
FuelingFollows(current_distance, total_distance) ==
    current_distance < total_distance

\* a slab that is the whole of what remains
SlabDistanceUncut(remaining_distance) == remaining_distance

\* segment_distance = min(remaining_distance, 1000.0)
SlabDistance(remaining_distance) ==
    IF remaining_distance < SlabMiles THEN remaining_distance ELSE SlabMiles

RECURSIVE ShortTrip(_, _, _)
\* lines 113-142: the while loop of the single-day branch
ShortTrip(route, current_distance, segment_number) ==
    IF current_distance < route.distance
    THEN LET remaining_distance == route.distance - current_distance
             segment_distance == SlabDistance(remaining_distance)
             segment_drive_time ==
                 (segment_distance * route.duration) \div route.distance
             next_distance == current_distance + segment_distance
         IN  <<PlannedSegment("drive", segment_drive_time,
                   RouteSegmentLocation(segment_number, segment_distance))>>
             \o (IF FuelingFollows(next_distance, route.distance)
                 THEN <<PlannedSegment("on_duty", FuelingDuration,
                                       "Fueling Stop")>>
                 ELSE <<>>)
             \o ShortTrip(route, next_distance, segment_number + 1)
    ELSE <<>>

\* a rest after every drive chunk, the last one too
RestFollowsAlways(remaining_duration_after) == TRUE

\* "if remaining_duration > 0": a rest break follows the drive chunk
RestFollows(remaining_duration_after) == remaining_duration_after > 0

\* a drive chunk one hour over the limit
DriveChunkDurationLong(remaining) ==
    IF remaining < max_driving_hours + Hour THEN remaining
    ELSE max_driving_hours + Hour

\* drive_duration = min(remaining_duration, max_driving_hours)
DriveChunkDuration(remaining) ==
    IF remaining < max_driving_hours THEN remaining ELSE max_driving_hours

RECURSIVE LongTrip(_, _, _)
\* lines 145-168: the while loop of the multi-day branch
LongTrip(route, remaining, segment_number) ==
    IF remaining > 0
    THEN LET drive_duration == DriveChunkDuration(remaining)
             miles == (route.distance * drive_duration) \div route.duration
             left == remaining - drive_duration
         IN  <<PlannedSegment("drive", drive_duration,
                   RouteSegmentLocation(segment_number, miles))>>
             \o (IF RestFollows(left)
                 THEN <<PlannedSegment("off_duty", PlannedRestDuration,
                                       "Rest Break (10 hours)")>>
                 ELSE <<>>)
             \o LongTrip(route, left, segment_number + 1)
    ELSE <<>>

\* the first segment with another label
PickupSegmentUnlabelled ==
    PlannedSegment("on_duty", PickupDuration, "Pickup")

\* lines 92-99: the first segment
PickupSegment ==
    PlannedSegment("on_duty", PickupDuration, "Pickup Location")

\* lines 170-175: the last segment
DropoffSegment ==
    PlannedSegment("on_duty", DropoffDuration, "Dropoff Location")

\* lines 111-168: the driving segments between pickup and drop-off
Interior(route) ==
    IF route.duration <= max_driving_hours
    THEN ShortTrip(route, 0, 1)
    ELSE LongTrip(route, route.duration, 1)

\* lines 92-175: the segment list plan_trip hands to hos_scheduler
PlanSegments(route) ==
    <<PickupSegment>> \o Interior(route) \o <<DropoffSegment>>

InitPlan ==
    /\ start_time \in PlanStartTimes
    /\ weekly_used \in PlanWeeklyUsedValues
    /\ route_data \in Routes
    /\ segments = <<>>
    /\ ClientIdle
    /\ WebIdle
    /\ pc = "plan"
    /\ SchedulerIdle

\* plan_trip, lines 91-195: build the segments and call hos_scheduler
PlanTrip ==
    /\ pc = "plan"
    /\ segments' = PlanSegments(route_data)
    /\ pc' = "start"
    /\ UNCHANGED <<start_time, weekly_used, route_data, client, web, seg_index,
                   remaining_duration, day_start, current_time, daily_logs,
                   daily_entries, daily_driving, daily_on_duty,
                   daily_off_duty, weekly_hours, consecutive_driving>>

NextPlan ==
    \/ PlanTrip
    \/ Next

SpecPlan == InitPlan /\ [][NextPlan]_vars

----------------------------------------------------------------------------
(* The route client, get_route of ors_client.py.  A coordinate is a pair   *)
(* <<longitude, latitude>> in degrees; a route is a distance in hundredths *)
(* of a mile and a duration in hundredths of an hour, the two decimals     *)
(* round(x, 2) keeps.                                                      *)

\* places on the meridians 90 W and 90 E; the last two are antipodes
Places == {<<-90, 30>>, <<-90, 40>>, <<-90, 50>>, <<-90, 8>>, <<90, -8>>}

\* what a provider's HTTP call can come to
Outcomes == {"ok", "http_error", "timeout", "malformed", "empty"}

\* the distance in metres and the duration in seconds of a provider's route
ProviderRoutes == {<<1609, 3600>>, <<3218, 5000>>}

\* round(metres * 0.000621371, 2), in hundredths of a mile
MetersToMiles(m) == (m * 621371 + 5000000) \div 10000000

\* round(seconds / 3600, 2), in hundredths of an hour
SecondsToHours(sec) == (sec * 100 + 1800) \div 3600

Abs(x) == IF x < 0 THEN -x ELSE x

\* the angle in degrees between two places on the meridians 90 W and 90 E:
\* along the meridian, or over the nearer pole
CentralAngle(coord1, coord2) ==
    IF coord1[1] = coord2[1]
    THEN Abs(coord2[2] - coord1[2])
    ELSE 180 - Abs(coord1[2] + coord2[2])

\* line 182: math.sqrt(1 - a) raises ValueError when a > 1.  For antipodes
\* a is 1 in exact arithmetic; in IEEE double arithmetic lines 178-180
\* give 1 + 2^-52 for the antipodes at latitude 8 (and 1 or less for the
\* other pairs of Places).
HaversineRaises(coord1, coord2) ==
    /\ CentralAngle(coord1, coord2) = 180
    /\ Abs(coord1[2]) = 8

\* haversine_distance: R * c with R = 3959, in ten-thousandths of a mile
\* (690.9758 miles for 10 degrees)
HaversineDistance(coord1, coord2) ==
    LET degrees == CentralAngle(coord1, coord2)
    IN  (degrees * 6909758 + degrees \div 2) \div 10

\* lines 185-188: the estimator fails when a leg's distance does
MockRaises(req) ==
    \/ HaversineRaises(req[1], req[2])
    \/ HaversineRaises(req[2], req[3])

\* lines 153-202: _get_mock_route, the estimator
MockRoute(req) ==
    LET total_distance == HaversineDistance(req[1], req[2])
                              + HaversineDistance(req[2], req[3])
    IN  [distance |-> (total_distance + 50) \div 100,
         duration |-> (total_distance + 2500) \div 5000,
         geometry |-> req]

\* the route a provider's answer is turned into (lines 78-94, 131-144)
ProviderRoute(answer, provider) ==
    [distance |-> MetersToMiles(answer[1]),
     duration |-> SecondsToHours(answer[2]),
     geometry |-> provider]

InitRoute ==
    /\ request \in Places \X Places \X Places
    /\ mapbox_available \in BOOLEAN
    /\ ors_available \in BOOLEAN
    /\ route_pc = "get_route"
    /\ attempts = <<>>
    /\ route_result = NoRoute
    /\ start_time = 0
    /\ segments = <<>>
    /\ weekly_used = 0
    /\ route_data = NoRoute
    /\ WebIdle
    /\ pc = "idle"
    /\ SchedulerIdle

\* a provider function: the call, and the estimator on every failure
CallProvider(provider) ==
    /\ route_pc = "get_route"
    /\ \E outcome \in Outcomes :
          IF outcome = "ok"
          THEN \E answer \in ProviderRoutes :
                  /\ attempts' = Append(attempts, provider)
                  /\ route_result' = ProviderRoute(answer, provider)
                  /\ route_pc' = "returned"
          ELSE /\ attempts' = attempts \o <<provider, "estimator">>
               /\ IF MockRaises(request)
                  THEN /\ route_result' = route_result
                       /\ route_pc' = "raised"
                  ELSE /\ route_result' = MockRoute(request)
                       /\ route_pc' = "returned"
    /\ UNCHANGED <<request, mapbox_available, ors_available, web>>
    /\ UNCHANGED <<start_time, segments, weekly_used, route_data, pc,
                   seg_index, remaining_duration, day_start, current_time,
                   daily_logs, daily_entries, daily_driving, daily_on_duty,
                   daily_off_duty, weekly_hours, consecutive_driving>>

\* lines 37-39, 51-102: get_route with a Mapbox token
GetRouteMapbox ==
    /\ mapbox_available
    /\ CallProvider("mapbox")

\* lines 42-44, 105-150: get_route with an OpenRouteService key only
GetRouteOrs ==
    /\ ~mapbox_available
    /\ ors_available
    /\ CallProvider("ors")

\* lines 46-48: get_route with no key
GetRouteMock ==
    /\ ~mapbox_available
    /\ ~ors_available
    /\ route_pc = "get_route"
    /\ attempts' = Append(attempts, "estimator")
    /\ IF MockRaises(request)
       THEN /\ route_result' = route_result
            /\ route_pc' = "raised"
       ELSE /\ route_result' = MockRoute(request)
            /\ route_pc' = "returned"
    /\ UNCHANGED <<request, mapbox_available, ors_available, web>>
    /\ UNCHANGED <<start_time, segments, weekly_used, route_data, pc,
                   seg_index, remaining_duration, day_start, current_time,
                   daily_logs, daily_entries, daily_driving, daily_on_duty,
                   daily_off_duty, weekly_hours, consecutive_driving>>

NextRoute ==
    \/ GetRouteMapbox
    \/ GetRouteOrs
    \/ GetRouteMock

SpecRoute == InitRoute /\ [][NextRoute]_vars

----------------------------------------------------------------------------
(* hos_scheduler as a function of its arguments, for the claims that       *)
(* compare two calls.  A run state holds the function's local variables.   *)

\* lines 22-60
RunPreamble(start, used) ==
    LET midnight == FloorToDay(start)
        filler == IF start > midnight
                  THEN <<Entry(<<0, 0>>, StrfTime(start), "off_duty",
                               "Off Duty", start - midnight)>>
                  ELSE <<>>
        restart == used > WeeklyLimit
    IN  [day_start |-> midnight,
         daily_logs |-> <<>>,
         daily_entries |->
             IF restart
             THEN Append(filler, BreakEntry(start, "34-hour Restart",
                                            RestartDuration))
             ELSE filler,
         daily_driving |-> 0,
         daily_on_duty |-> 0,
         daily_off_duty |->
             (start - midnight) + (IF restart THEN RestartDuration ELSE 0),
         current_time |-> IF restart THEN start + RestartDuration ELSE start,
         weekly_hours |-> IF restart THEN 0 ELSE used,
         consecutive_driving |-> 0]

\* the day fields of a run state after the day check at the given instant
RunCrossMidnight(r) ==
    LET s == CrossMidnight(
                 [day_start |-> r.day_start, daily_logs |-> r.daily_logs,
                  daily_entries |-> r.daily_entries,
                  daily_driving |-> r.daily_driving,
                  daily_on_duty |-> r.daily_on_duty,
                  daily_off_duty |-> r.daily_off_duty], r.current_time)
    IN  [r EXCEPT !.day_start = s.day_start, !.daily_logs = s.daily_logs,
                  !.daily_entries = s.daily_entries,
                  !.daily_driving = s.daily_driving,
                  !.daily_on_duty = s.daily_on_duty,
                  !.daily_off_duty = s.daily_off_duty]

\* an inserted break: its entry, its off-duty time, the clock advanced
RunBreak(r, location, duration) ==
    [r EXCEPT !.daily_entries =
                  Append(@, BreakEntry(r.current_time, location, duration)),
              !.daily_off_duty = @ + duration,
              !.current_time = @ + duration]

\* lines 108-137: the checks before a drive segment
RunDriveChecks(r, duration) ==
    LET r1 == IF r.daily_driving + duration > DrivingLimit
              THEN [RunBreak(r, "Rest Break (10 hours)", RestBreakDuration)
                       EXCEPT !.daily_driving = 0,
                              !.consecutive_driving = 0]
              ELSE r
    IN  IF r1.consecutive_driving + duration > ConsecutiveLimit
        THEN [RunBreak(r1, "30-min Break", ShortBreakDuration)
                 EXCEPT !.consecutive_driving = 0]
        ELSE r1

\* lines 204-217: the check before an on_duty segment
RunOnDutyCheck(r, duration) ==
    IF r.daily_on_duty + duration > OnDutyLimit
    THEN [RunBreak(r, "14-hour Reset", ResetDuration)
             EXCEPT !.daily_on_duty = 0]
    ELSE r

RECURSIVE RunChunks(_, _, _, _)
\* the while loop of a segment: lines 141-197, 221-275, 284-339
RunChunks(r, type, location, remaining) ==
    IF remaining > 0
    THEN LET s == RunCrossMidnight(r)
             time_left_in_day == (s.day_start + Day) - s.current_time
             d == SegmentDuration(remaining, time_left_in_day)
             status == IF type = "drive" THEN "driving" ELSE type
             e == Entry(StrfTime(s.current_time),
                        StrfTime(s.current_time + d), status, location, d)
             t == [s EXCEPT !.daily_entries = Append(@, e),
                            !.current_time = @ + d]
             u == CASE type = "drive" ->
                         [t EXCEPT !.daily_driving = @ + d,
                                   !.daily_on_duty = @ + d,
                                   !.consecutive_driving = @ + d]
                    [] type = "on_duty" ->
                         [t EXCEPT !.daily_on_duty = @ + d]
                    [] OTHER ->
                         [t EXCEPT !.daily_off_duty = @ + d,
                                   !.consecutive_driving = 0]
         IN  RunChunks(u, type, location, remaining - d)
    ELSE r

\* lines 63-343: one iteration of the for loop
RunSegment(r, segment) ==
    LET s == RunCrossMidnight(r)
        c == CASE segment.type = "drive" ->
                    RunDriveChecks(s, segment.duration)
               [] segment.type = "on_duty" ->
                    RunOnDutyCheck(s, segment.duration)
               [] OTHER -> s
    IN  RunChunks(c, segment.type, segment.location, segment.duration)

RECURSIVE RunSegments(_, _, _)
RunSegments(r, segs, k) ==
    IF k > Len(segs) THEN r
    ELSE RunSegments(RunSegment(r, segs[k]), segs, k + 1)

\* lines 345-391: the final off-duty period and the last day
RunPostamble(r) ==
    LET day_end == r.day_start + Day
        fill == r.current_time < day_end
        entries ==
            IF fill
            THEN Append(r.daily_entries,
                        Entry(StrfTime(r.current_time), EndOfDay, "off_duty",
                              "Off Duty", day_end - r.current_time))
            ELSE r.daily_entries
        off_duty ==
            IF fill THEN r.daily_off_duty + (day_end - r.current_time)
            ELSE r.daily_off_duty
    IN  Append(r.daily_logs,
               DailyLog(r.day_start, entries, r.daily_driving,
                        r.daily_on_duty, off_duty))

\* hos_scheduler(start_time, segments, weekly_used)
Schedule(start, segs, used) ==
    RunPostamble(RunSegments(RunPreamble(start, used), segs, 1))

\* the function and the step-by-step run return the same logs
ScheduleAgrees ==
    pc = "done" => daily_logs = Schedule(start_time, segments, weekly_used)

----------------------------------------------------------------------------
(* plan_trip of views.py with the DailyRod table of models.py.  A request  *)
(* is served in a slot, in three kinds of step: everything up to the call  *)
(* of hos_scheduler, one update_or_create per daily log, and the response. *)
(* The route is what get_route answered, in the planner's units.  The      *)
(* DecimalField columns of DailyRod hold hundredths of an hour.            *)

\* the requests a behaviour receives
MaxRequests == 2

\* timezone.now(): ten past eight in the evening of day 20
Now == 20 * Day + 20 * Hour + 10

\* timezone.now().date()
Today == DateOf(Now)

\* the ids of the Driver rows
Drivers == {1}

\* the fields of a request body: a coordinate is <<longitude, latitude>>,
\* driver_id and the start are <<>> when absent
\* current_location, pickup and dropoff: three places, one of them out of
\* range, one place three times, and a pair of antipodes
BodyCoordinates ==
    {<<<<-90, 30>>, <<-90, 40>>, <<-90, 50>>>>,
     <<<<181, 0>>, <<-90, 40>>, <<-90, 50>>>>,
     <<<<-90, 30>>, <<0, -91>>, <<-90, 50>>>>,
     <<<<-90, 30>>, <<-90, 40>>, <<-181, 95>>>>,
     <<<<-90, 30>>, <<-90, 30>>, <<-90, 30>>>>,
     <<<<-90, 8>>, <<90, -8>>, <<-90, 50>>>>}
BodyDrivers == {<<>>, <<0>>, <<1>>, <<2>>}
BodyStarts ==
    {<<>>, <<(Today + 1) * Day + 20 * Hour>>, <<(Today - 9) * Day + 20 * Hour>>}

Bodies ==
    {[current_location |-> c[1], pickup |-> c[2], dropoff |-> c[3],
      driver_id |-> d, current_cycle_used_hours |-> 0, start |-> st] :
         c \in BodyCoordinates, d \in BodyDrivers, st \in BodyStarts}

\* what get_route answers from a provider
WebRoutes ==
    {Route(300, 6 * Hour), Route(600, 12 * Hour), Route(1100, 22 * Hour)}

\* the three coordinates get_route is called with
RequestOf(body) == <<body.current_location, body.pickup, body.dropoff>>

\* what get_route answers from the estimator, in miles and minutes: of the
\* estimator's routes the model plans the zero route of coinciding places
EstimatedRoutes(body) ==
    IF /\ MockRoute(RequestOf(body)).distance = 0
       /\ MockRoute(RequestOf(body)).duration = 0
    THEN {Route(0, 0)}
    ELSE {}

\* a check of the longitude alone
ValidCoordinateLongitude(coord) == -180 <= coord[1] /\ coord[1] <= 180

\* lines 45-49: validate_coordinates
ValidCoordinate(coord) ==
    /\ -180 <= coord[1] /\ coord[1] <= 180
    /\ -90 <= coord[2] /\ coord[2] <= 90

\* lines 51-56
ValidBody(body) ==
    /\ ValidCoordinate(body.current_location)
    /\ ValidCoordinate(body.pickup)
    /\ ValidCoordinate(body.dropoff)

\* "if driver_id:": the field is present and not zero
Truthy(driver_id) == driver_id # <<>> /\ driver_id[1] # 0

\* lines 178-184: the explicit start, or now
StartOf(body) == IF body.start = <<>> THEN Now ELSE body.start[1]

\* a DecimalField(max_digits=4, decimal_places=2) column: minutes as
\* hundredths of an hour, rounded to the nearest
ToDecimal(minutes) == (5 * minutes + 1) \div 3

\* hundredths of an hour as minutes, rounded up (the scheduler compares
\* weekly_used with 70 hours and does nothing else with it)
WeeklyMinutes(hundredths) == (hundredths * 3 + 4) \div 5

\* lines 207-215: the row a daily log is stored as
RodOf(driver, log) ==
    [driver |-> driver, date |-> log.date,
     driving_hours |-> ToDecimal(log.totals.driving_hours),
     on_duty_hours |-> ToDecimal(log.totals.on_duty_hours),
     off_duty_hours |-> ToDecimal(log.totals.off_duty_hours),
     entries |-> log.entries]

\* the rows of a driver and a date
Matching(table, driver, date) ==
    {r \in table : r.driver = driver /\ r.date = date}

\* an upsert that never looks for the row
AlwaysCreate(table, rod) == table \cup {rod}

\* DailyRod.objects.update_or_create: the row of (driver, date) is replaced,
\* or created when there is none
UpdateOrCreate(table, rod) ==
    (table \ Matching(table, rod.driver, rod.date)) \cup {rod}

RECURSIVE SumOnDuty(_)
\* sum(float(rod.on_duty_hours) for rod in recent_rods)
SumOnDuty(recent_rods) ==
    IF recent_rods = {} THEN 0
    ELSE LET rod == CHOOSE r \in recent_rods : TRUE
         IN  rod.on_duty_hours + SumOnDuty(recent_rods \ {rod})

\* lines 76-80: the driver's rows dated eight days ago or later
RecentRods(table, driver) ==
    {r \in table : r.driver = driver /\ r.date >= Today - 8}

\* lines 247-276: calculate_rest_stops, a stop every 8 hours
calculate_rest_stops(route) ==
    [i \in 1..(route.duration \div (8 * Hour)) |->
        [time_from_start |-> i * 8 * Hour,
         distance |-> (i * 8 * Hour * route.distance) \div route.duration]]

\* line 296: start_distance / distance divides by zero
SplitRaises(route) == route.distance = 0

\* line 286: segments_needed = max(1, int(duration / max_driving_hours))
SegmentsNeeded(route) ==
    IF route.duration \div max_driving_hours > 1
    THEN route.duration \div max_driving_hours
    ELSE 1

\* lines 279-310: split_route_segments, distances in thousandths of a mile
split_route_segments(route) ==
    LET segments_needed == SegmentsNeeded(route)
        distance == route.distance * 1000
    IN  [i \in 1..segments_needed |->
            [segment_number |-> i,
             start_distance |-> ((i - 1) * distance) \div segments_needed,
             end_distance |-> (i * distance) \div segments_needed]]

\* a request as plan_trip receives it
Received(body, table) ==
    [phase |-> "received", body |-> body, before |-> table, calls |-> <<>>,
     status |-> 0, route |-> NoRoute, weekly_used |-> 0, daily_logs |-> <<>>,
     written |-> 0, route_segments |-> <<>>, rest_stops |-> <<>>,
     previous |-> <<>>]

\* history: what the slot's last request was and how it was answered
Summary(h) ==
    IF h.phase = "responded"
    THEN <<[body |-> h.body, route |-> h.route, status |-> h.status,
            weekly_used |-> h.weekly_used, daily_logs |-> h.daily_logs]>>
    ELSE <<>>

\* a request answered with a status
Answered(h, status) == [h EXCEPT !.phase = "responded", !.status = status]

\* a request arrives in a free slot
Submit(id, body) ==
    /\ handlers[id].phase \in {"idle", "responded"}
    /\ served < MaxRequests
    /\ handlers' =
          [handlers EXCEPT ![id] =
             [Received(body, rods) EXCEPT !.previous = Summary(handlers[id])]]
    /\ served' = served + 1
    /\ UNCHANGED <<rods, last_upsert>>
    /\ UNCHANGED <<start_time, segments, weekly_used, route_data, client, pc,
                   seg_index, remaining_duration, day_start, current_time,
                   daily_logs, daily_entries, daily_driving, daily_on_duty,
                   daily_off_duty, weekly_hours, consecutive_driving>>

\* lines 31-195: validation, get_route, the driver's weekly hours, the
\* planner and hos_scheduler
Begin(id) ==
    /\ handlers[id].phase = "received"
    /\ LET h == handlers[id]
           body == h.body
       IN  IF ~ValidBody(body)
           THEN handlers' = [handlers EXCEPT ![id] = Answered(h, 400)]
           ELSE \/ /\ MockRaises(RequestOf(body))
                   /\ handlers' =
                        [handlers EXCEPT ![id] =
                           Answered([h EXCEPT !.calls = <<"get_route">>], 500)]
                \/ \E route \in WebRoutes \cup EstimatedRoutes(body) :
                     LET routed == [h EXCEPT !.calls = <<"get_route">>,
                                             !.route = route]
                     IN  IF Truthy(body.driver_id)
                               /\ body.driver_id[1] \notin Drivers
                         THEN handlers' =
                               [handlers EXCEPT ![id] = Answered(routed, 404)]
                         ELSE LET used ==
                                   IF Truthy(body.driver_id)
                                   THEN SumOnDuty(RecentRods(rods,
                                                     body.driver_id[1]))
                                   ELSE body.current_cycle_used_hours
                              IN  handlers' =
                                 [handlers EXCEPT ![id] =
                                   [routed EXCEPT
                                      !.phase = "persisting",
                                      !.calls = <<"get_route", "hos_scheduler">>,
                                      !.weekly_used = used,
                                      !.daily_logs =
                                          Schedule(StartOf(body),
                                                   PlanSegments(route),
                                                   WeeklyMinutes(used))]]
    /\ UNCHANGED <<rods, served, last_upsert>>
    /\ UNCHANGED <<start_time, segments, weekly_used, route_data, client, pc,
                   seg_index, remaining_duration, day_start, current_time,
                   daily_logs, daily_entries, daily_driving, daily_on_duty,
                   daily_off_duty, weekly_hours, consecutive_driving>>

\* lines 205-216: one iteration of the loop that persists the logs
Upsert(id) ==
    /\ handlers[id].phase = "persisting"
    /\ Truthy(handlers[id].body.driver_id)
    /\ handlers[id].written < Len(handlers[id].daily_logs)
    /\ LET h == handlers[id]
           rod == RodOf(h.body.driver_id[1], h.daily_logs[h.written + 1])
           key == <<rod.driver, rod.date>>
       IN  IF Cardinality(Matching(rods, rod.driver, rod.date)) > 1
           THEN /\ handlers' = [handlers EXCEPT ![id] = Answered(h, 500)]
                /\ UNCHANGED <<rods, last_upsert>>
           ELSE /\ rods' = UpdateOrCreate(rods, rod)
                /\ handlers' =
                      [handlers EXCEPT
                         ![id].written = h.written + 1,
                         ![id].calls = Append(h.calls, "update_or_create")]
                /\ last_upsert' =
                      [k \in DOMAIN last_upsert \cup {key} |->
                          IF k = key THEN id ELSE last_upsert[k]]
    /\ UNCHANGED served
    /\ UNCHANGED <<start_time, segments, weekly_used, route_data, client, pc,
                   seg_index, remaining_duration, day_start, current_time,
                   daily_logs, daily_entries, daily_driving, daily_on_duty,
                   daily_off_duty, weekly_hours, consecutive_driving>>

\* lines 219-244: the response
Respond(id) ==
    /\ handlers[id].phase = "persisting"
    /\ \/ ~Truthy(handlers[id].body.driver_id)
       \/ handlers[id].written = Len(handlers[id].daily_logs)
    /\ LET h == handlers[id]
       IN  IF SplitRaises(h.route)
           THEN handlers' = [handlers EXCEPT ![id] = Answered(h, 500)]
           ELSE handlers' =
                  [handlers EXCEPT ![id] =
                     [Answered(h, 200) EXCEPT
                        !.rest_stops = calculate_rest_stops(h.route),
                        !.route_segments = split_route_segments(h.route)]]
    /\ UNCHANGED <<rods, served, last_upsert>>
    /\ UNCHANGED <<start_time, segments, weekly_used, route_data, client, pc,
                   seg_index, remaining_duration, day_start, current_time,
                   daily_logs, daily_entries, daily_driving, daily_on_duty,
                   daily_off_duty, weekly_hours, consecutive_driving>>

\* the scheduler and the route client on their own are not in use
OnlyWeb ==
    /\ start_time = 0
    /\ segments = <<>>
    /\ weekly_used = 0
    /\ route_data = NoRoute
    /\ ClientIdle
    /\ pc = "idle"
    /\ SchedulerIdle

\* requests served one after the other
InitStore ==
    /\ OnlyWeb
    /\ WebIdle

NextStore ==
    \/ \E body \in Bodies : Submit(1, body)
    \/ Begin(1)
    \/ Upsert(1)
    \/ Respond(1)

SpecStore == InitStore /\ [][NextStore]_vars

\* the requests of two clients planning for the same driver
RaceBodies ==
    {body \in Bodies : ValidBody(body) /\ body.driver_id = <<1>>}

\* two requests for one driver served at the same time
InitRace ==
    /\ OnlyWeb
    /\ rods = {}
    /\ handlers \in [Slots -> {Received(body, {}) : body \in RaceBodies}]
    /\ served = Cardinality(Slots)
    /\ last_upsert = <<>>

NextRace ==
    \E id \in Slots :
        \/ Begin(id)
        \/ Upsert(id)
        \/ Respond(id)

SpecRace == InitRace /\ [][NextRace]_vars

----------------------------------------------------------------------------
(* What the claims are stated over: the returned logs and their entries.   *)

Returned == pc = "done"

RECURSIVE Flatten(_, _)
\* the entries of logs[k..], in order
Flatten(logs, k) ==
    IF k > Len(logs) THEN <<>>
    ELSE logs[k].entries \o Flatten(logs, k + 1)

\* every entry emitted so far, in the order of emission
AllEntries ==
    Flatten(daily_logs, 1) \o (IF Returned THEN <<>> ELSE daily_entries)

RECURSIVE SumStatus(_, _, _)
\* total duration of the entries es[k..] whose status is in the given set
SumStatus(es, k, statuses) ==
    IF k > Len(es) THEN 0
    ELSE (IF es[k].status \in statuses THEN es[k].duration ELSE 0)
             + SumStatus(es, k + 1, statuses)

RECURSIVE SumSegments(_, _, _)
\* total duration of the input segments segs[k..] of the given type
SumSegments(segs, k, type) ==
    IF k > Len(segs) THEN 0
    ELSE (IF segs[k].type = type THEN segs[k].duration ELSE 0)
             + SumSegments(segs, k + 1, type)

\* minute of the day an 'HH:MM' string names
MinuteOf(hm) == hm[1] * Hour + hm[2]

\* the end of an entry as a minute of its day: '00:00' and '24:00', as the
\* end of an entry that lasts, both name the midnight that ends the day
EndMinuteOf(e) ==
    IF e.duration > 0 /\ MinuteOf(e.end_time) = 0 THEN Day
    ELSE MinuteOf(e.end_time)

InsertedLocations ==
    {"34-hour Restart", "Rest Break (10 hours)", "30-min Break",
     "14-hour Reset"}

HasLocation(es, location) ==
    \E k \in 1..Len(es) : es[k].location = location

NoInsertedEntry(es) ==
    \A k \in 1..Len(es) : es[k].location \notin InsertedLocations

\* the durations of the entries of es with the given status, in order
DurationsOf(es, status) ==
    LET keep(e) == e.status = status
        sel == SelectSeq(es, keep)
    IN  [k \in 1..Len(sel) |-> sel[k].duration]

IsInput(start, segs, used) ==
    /\ start_time = start
    /\ segments = segs
    /\ weekly_used = used

----------------------------------------------------------------------------
(* C1 *)

\* a day's entries cover 00:00 to 24:00: they sum to 24 hours, the first
\* starts at 00:00, each starts where the previous one ends and lasts from
\* its start to its end, and the last ends at midnight
FullDay(es) ==
    /\ Len(es) > 0
    /\ SumStatus(es, 1, {"driving", "on_duty", "off_duty"}) = Day
    /\ es[1].start_time = <<0, 0>>
    /\ \A k \in 1..Len(es) :
          /\ MinuteOf(es[k].start_time) + es[k].duration = EndMinuteOf(es[k])
          /\ k < Len(es) => es[k + 1].start_time = es[k].end_time
    /\ EndMinuteOf(es[Len(es)]) = Day

\* C1: every returned DailyLog has entries that sum to exactly 24 hours and
\* are contiguous from 00:00 to 24:00 with no gap and no overlap.
C1_FullDays ==
    Returned => \A k \in 1..Len(daily_logs) : FullDay(daily_logs[k].entries)

----------------------------------------------------------------------------
(* C2, C3, C4: the limits of a duty tour, measured on the emitted entries. *)

RECURSIVE TourDrivingWithin(_, _, _, _)
\* over es[k..]: the driving since the last off-duty period of 10 contiguous
\* hours never exceeds 11 hours (off_run: the off-duty run ending at k,
\* driven: the driving since the last such period)
TourDrivingWithin(es, k, off_run, driven) ==
    IF k > Len(es) THEN TRUE
    ELSE LET e == es[k]
         IN  CASE e.status = "off_duty" ->
                    TourDrivingWithin(es, k + 1, off_run + e.duration,
                        IF off_run + e.duration >= RestBreakDuration
                        THEN 0 ELSE driven)
               [] e.status = "driving" ->
                    /\ driven + e.duration <= DrivingLimit
                    /\ TourDrivingWithin(es, k + 1, 0, driven + e.duration)
               [] OTHER -> TourDrivingWithin(es, k + 1, 0, driven)

\* C2: between two off-duty periods of at least 10 contiguous hours (or from
\* the start of the schedule) the driving entries total at most 11 hours; a
\* single drive of 12 h started at 08:00 is emitted as 11 h driving, a
\* 10-hour rest and 1 h driving.
C2_ElevenHourLimit ==
    /\ TourDrivingWithin(AllEntries, 1, 0, 0)
    /\ Returned /\ IsInput(8 * Hour, <<Segment("drive", 12 * Hour)>>, 0)
       => /\ DurationsOf(AllEntries, "driving") = <<11 * Hour, Hour>>
          /\ HasLocation(AllEntries, "Rest Break (10 hours)")

RECURSIVE ConsecutiveDrivingWithin(_, _, _)
\* over es[k..]: the driving since the last off-duty entry of at least 30
\* minutes never exceeds 8 hours
ConsecutiveDrivingWithin(es, k, driven) ==
    IF k > Len(es) THEN TRUE
    ELSE LET e == es[k]
         IN  CASE e.status = "off_duty" ->
                    ConsecutiveDrivingWithin(es, k + 1,
                        IF e.duration >= ShortBreakDuration THEN 0
                        ELSE driven)
               [] e.status = "driving" ->
                    /\ driven + e.duration <= ConsecutiveLimit
                    /\ ConsecutiveDrivingWithin(es, k + 1, driven + e.duration)
               [] OTHER -> ConsecutiveDrivingWithin(es, k + 1, driven)

\* C3: no run of driving entries uninterrupted by an off-duty entry of at
\* least 30 minutes totals more than 8 hours; a single drive of 9 h started
\* at 08:00 gets a '30-min Break' after its first 8 h of driving and no
\* 10-hour rest.
C3_EightHourLimit ==
    /\ ConsecutiveDrivingWithin(AllEntries, 1, 0)
    /\ Returned /\ IsInput(8 * Hour, <<Segment("drive", 9 * Hour)>>, 0)
       => /\ DurationsOf(AllEntries, "driving") = <<8 * Hour, Hour>>
          /\ HasLocation(AllEntries, "30-min Break")
          /\ ~HasLocation(AllEntries, "Rest Break (10 hours)")

RECURSIVE TourOnDutyWithin(_, _, _, _)
\* over es[k..]: the on-duty time (on_duty and driving entries) since the
\* last off-duty period of 10 contiguous hours never exceeds 14 hours
TourOnDutyWithin(es, k, off_run, worked) ==
    IF k > Len(es) THEN TRUE
    ELSE LET e == es[k]
         IN  IF e.status = "off_duty"
             THEN TourOnDutyWithin(es, k + 1, off_run + e.duration,
                      IF off_run + e.duration >= ResetDuration
                      THEN 0 ELSE worked)
             ELSE /\ worked + e.duration <= OnDutyLimit
                  /\ TourOnDutyWithin(es, k + 1, 0, worked + e.duration)

\* C4: within any window bounded by two off-duty periods of at least 10
\* contiguous hours (or by the schedule start) the on_duty and driving
\* entries total at most 14 hours.
C4_FourteenHourWindow ==
    TourOnDutyWithin(AllEntries, 1, 0, 0)

----------------------------------------------------------------------------
(* C5 *)

\* the running 8-day on-duty total: the weekly hours the preamble left
\* (weekly_used, or zero after a restart) plus every driving and on-duty hour
\* emitted so far
RunningWeeklyOnDuty ==
    (IF weekly_used > WeeklyLimit THEN 0 ELSE weekly_used)
        + SumStatus(AllEntries, 1, {"driving", "on_duty"})

\* C5: the running 8-day on-duty total never exceeds 70 hours at any point
\* of the schedule, counted from the last 34-hour restart if there is one.
C5_SeventyHourLimit ==
    pc # "start" => RunningWeeklyOnDuty <= WeeklyLimit

----------------------------------------------------------------------------
(* C6 *)

\* C6: the dates of the returned DailyLogs are consecutive calendar days, the
\* first the day of the start instant and the last the day that holds the
\* end of the last segment.
C6_ConsecutiveDays ==
    Returned =>
        /\ Len(daily_logs) > 0
        /\ daily_logs[1].date = DateOf(start_time)
        /\ \A k \in 1..(Len(daily_logs) - 1) :
              daily_logs[k + 1].date = daily_logs[k].date + 1
        /\ Len(segments) > 0 =>
              daily_logs[Len(daily_logs)].date
                  \in {DateOf(current_time), DateOf(current_time - 1)}

----------------------------------------------------------------------------
(* C7 *)

\* C7: every entry lies within the calendar day of its DailyLog: none lasts
\* longer than the time left in its day when it starts.
C7_EntriesWithinDay ==
    \A k \in 1..Len(AllEntries) :
        MinuteOf(AllEntries[k].start_time) + AllEntries[k].duration <= Day

----------------------------------------------------------------------------
(* C8 *)

TotalsMatchEntries(log) ==
    /\ log.totals.driving_hours = SumStatus(log.entries, 1, {"driving"})
    /\ log.totals.off_duty_hours = SumStatus(log.entries, 1, {"off_duty"})
    /\ log.totals.on_duty_hours =
           SumStatus(log.entries, 1, {"on_duty", "driving"})

\* C8: the totals of every returned DailyLog agree with its entries: driving
\* with the driving entries, off-duty with the off_duty entries, on-duty with
\* the on_duty and driving entries.
C8_TotalsMatchEntries ==
    Returned => \A k \in 1..Len(daily_logs) : TotalsMatchEntries(daily_logs[k])

----------------------------------------------------------------------------
(* C9 *)

Scenario1 == IsInput(8 * Hour, OneDayTrip, 0)

Totals(driving, on_duty, off_duty) ==
    [driving_hours |-> driving, on_duty_hours |-> on_duty,
     off_duty_hours |-> off_duty]

----------------------------------------------------------------------------
(* C10 *)

\* C10: the driving entries of all returned DailyLogs together last as long
\* as the input drive segments together.
C10_DrivingPreserved ==
    Returned =>
        SumStatus(AllEntries, 1, {"driving"})
            = SumSegments(segments, 1, "drive")

\* a drive was split at midnight after a 10-hour rest had been inserted
C10_Witness ==
    /\ Returned
    /\ Len(daily_logs) >= 2
    /\ HasLocation(AllEntries, "Rest Break (10 hours)")
    /\ Len(DurationsOf(AllEntries, "driving")) >= 2
    /\ SumSegments(segments, 1, "drive") > 0

----------------------------------------------------------------------------
(* C11 *)

----------------------------------------------------------------------------
(* C12 *)

\* segs with its k-th segment replaced by two of durations a and d - a
SplitAt(segs, k, a) ==
    SubSeq(segs, 1, k - 1)
        \o <<[segs[k] EXCEPT !.duration = a],
             [segs[k] EXCEPT !.duration = @ - a]>>
        \o SubSeq(segs, k + 1, Len(segs))

SplitPoints(d) == {a \in Durations : 0 < a /\ a < d}

RECURSIVE Merged(_, _)
\* es[k..] with every two successive entries of one status and one location
\* that meet in time made one entry
Merged(es, k) ==
    IF k > Len(es) THEN <<>>
    ELSE LET rest == Merged(es, k + 1)
         IN  IF /\ Len(rest) > 0
                /\ rest[1].status = es[k].status
                /\ rest[1].location = es[k].location
                /\ rest[1].start_time = es[k].end_time
             THEN <<Entry(es[k].start_time, rest[1].end_time, es[k].status,
                          es[k].location,
                          es[k].duration + rest[1].duration)>>
                  \o Tail(rest)
             ELSE <<es[k]>> \o rest

\* the logs with the entries of each merged
MergedLogs(logs) ==
    [k \in 1..Len(logs) |->
        [logs[k] EXCEPT !.entries = Merged(logs[k].entries, 1)]]

----------------------------------------------------------------------------
(* C13 *)

\* C13: scenario 1 (start 08:00, on_duty 1 h, drive 5 h, on_duty 1 h,
\* weekly_used 0) returns exactly one DailyLog, of the start day, with the
\* entries 00:00-08:00 off_duty, 08:00-09:00 on_duty, 09:00-14:00 driving,
\* 14:00-15:00 on_duty, 15:00-24:00 off_duty and no inserted break.
C13_Scenario1 ==
    Returned /\ Scenario1 =>
        /\ Len(daily_logs) = 1
        /\ daily_logs[1].date = 0
        /\ daily_logs[1].entries =
               <<Entry(<<0, 0>>, <<8, 0>>, "off_duty", "Off Duty", 8 * Hour),
                 Entry(<<8, 0>>, <<9, 0>>, "on_duty", "Dock", Hour),
                 Entry(<<9, 0>>, <<14, 0>>, "driving", "Route", 5 * Hour),
                 Entry(<<14, 0>>, <<15, 0>>, "on_duty", "Dock", Hour),
                 Entry(<<15, 0>>, <<24, 0>>, "off_duty", "Off Duty",
                       9 * Hour)>>

\* scenario 1 has returned five entries
C13_Witness ==
    /\ Returned
    /\ Scenario1
    /\ Len(AllEntries) = 5

----------------------------------------------------------------------------
(* C14 *)

\* C14: when weekly_used is greater than 70 the first entry emitted, after
\* the midnight-to-start filler only, is a 34-hour off_duty '34-hour
\* Restart' and the schedule proceeds with the weekly counter at zero; when
\* weekly_used is 70 or less no '34-hour Restart' is emitted.
C14_Restart ==
    pc \notin {"plan", "start"} =>
        IF weekly_used > 70 * Hour
        THEN LET i == IF start_time % Day > 0 THEN 2 ELSE 1
             IN  /\ Len(AllEntries) >= i
                 /\ AllEntries[i] =
                        Entry(StrfTime(start_time),
                              StrfTime(start_time + 34 * Hour), "off_duty",
                              "34-hour Restart", 34 * Hour)
                 /\ i = 2 => AllEntries[1].location = "Off Duty"
                 /\ \A k \in 1..Len(AllEntries) :
                       k # i => AllEntries[k].location # "34-hour Restart"
                 /\ pc # "done" => weekly_hours = 0
        ELSE ~HasLocation(AllEntries, "34-hour Restart")

\* a plan of two segments has returned after a restart
C14_Witness ==
    /\ Returned
    /\ weekly_used = 75 * Hour
    /\ start_time = 8 * Hour
    /\ Len(segments) = 2
    /\ HasLocation(AllEntries, "34-hour Restart")

----------------------------------------------------------------------------
(* C15 *)

\* the while loop of the current segment has just emitted its last chunk
SegmentEmitted ==
    /\ pc \in {"drive", "on_duty", "off_duty"}
    /\ remaining_duration = 0
    /\ segments[seg_index].duration > 0

\* when the first chunk of the current segment started, and the midnight
\* after it
SegmentBegan == current_time - segments[seg_index].duration
MidnightAfter(t) == FloorToDay(t) + Day

StatusOf(type) == IF type = "drive" THEN "driving" ELSE type

\* the current segment is in two entries: one that ends the log of the day
\* it began, one that alone opens the log of the next day
SplitAtMidnight ==
    LET seg == segments[seg_index]
        t == SegmentBegan
        m == MidnightAfter(t)
    IN  /\ Len(daily_logs) > 0
        /\ LET log == daily_logs[Len(daily_logs)]
           IN  /\ log.date = DateOf(t)
               /\ Len(log.entries) > 0
               /\ log.entries[Len(log.entries)] =
                      Entry(StrfTime(t), <<0, 0>>, StatusOf(seg.type),
                            seg.location, m - t)
        /\ day_start = m
        /\ daily_entries =
               <<Entry(<<0, 0>>, StrfTime(current_time), StatusOf(seg.type),
                       seg.location, current_time - m)>>

LateDrive == IsInput(22 * Hour, <<Segment("drive", 4 * Hour)>>, 0)

LateDriveLogs ==
    <<[date |-> 0,
       entries |->
           <<Entry(<<0, 0>>, <<22, 0>>, "off_duty", "Off Duty", 22 * Hour),
             Entry(<<22, 0>>, <<0, 0>>, "driving", "Route", 2 * Hour)>>,
       totals |-> Totals(2 * Hour, 2 * Hour, 22 * Hour)],
      [date |-> 1,
       entries |->
           <<Entry(<<0, 0>>, <<2, 0>>, "driving", "Route", 2 * Hour),
             Entry(<<2, 0>>, <<24, 0>>, "off_duty", "Off Duty", 22 * Hour)>>,
       totals |-> Totals(2 * Hour, 2 * Hour, 22 * Hour)]>>

\* C15 as stated: a segment whose interval crosses local midnight is emitted
\* as one entry up to midnight in the first day's log and one entry from
\* 00:00 in the next day's log that covers the remainder; start 22:00 with
\* one drive of 4 h yields two logs with 2 h of driving each.
C15_MidnightSplitAsStated ==
    /\ SegmentEmitted /\ current_time > MidnightAfter(SegmentBegan)
          => SplitAtMidnight
    /\ Returned /\ LateDrive => daily_logs = LateDriveLogs

\* C15, amended: the same for a segment whose interval crosses local
\* midnight once, that is, ends no later than the midnight after the next.
C15_MidnightSplit ==
    /\ (/\ SegmentEmitted
        /\ current_time > MidnightAfter(SegmentBegan)
        /\ current_time <= MidnightAfter(SegmentBegan) + Day)
          => SplitAtMidnight
    /\ Returned /\ LateDrive => daily_logs = LateDriveLogs

\* the drive of 4 h started at 22:00 has been emitted in two entries
C15_Witness ==
    /\ SegmentEmitted
    /\ LateDrive
    /\ current_time = 26 * Hour
    /\ Len(daily_logs) = 1

----------------------------------------------------------------------------
(* C16 to C19: the planner.                                                *)

Planned == pc # "plan"

LongRoute == route_data.duration > 11 * Hour

\* the segments between the pickup and the drop-off
InteriorOf(segs) == SubSeq(segs, 2, Len(segs) - 1)

\* total duration of the entries of es at the given location
DurationAt(es, location) ==
    LET at(e) == e.location = location
    IN  SumStatus(SelectSeq(es, at), 1, {"driving", "on_duty", "off_duty"})

\* C16, for the 10-hour periods: on the segment list of a long trip the
\* scheduler's own rest insertion is a no-op for every start time: the
\* output holds no '14-hour Reset' and no 'Rest Break (10 hours)' beyond the
\* planned rests.
C16_NoInsertionOnLongTrips ==
    Planned /\ LongRoute =>
        /\ ~HasLocation(AllEntries, "14-hour Reset")
        /\ DurationAt(AllEntries, "Rest Break (10 hours)")
               <= SumSegments(segments, 1, "off_duty")

\* C17 as stated: the segment list begins with an on_duty segment of 1.0 h
\* labelled "Pickup" and ends with an on_duty segment of 1.0 h labelled
\* "Drop-off".
C17_PickupAndDropoffAsStated ==
    Planned =>
        /\ Len(segments) >= 2
        /\ segments[1] = PlannedSegment("on_duty", Hour, "Pickup")
        /\ segments[Len(segments)]
               = PlannedSegment("on_duty", Hour, "Drop-off")

\* C17, amended: the segment list begins with an on_duty segment of 1.0 h
\* labelled "Pickup Location" and ends with an on_duty segment of 1.0 h
\* labelled "Dropoff Location", and no segment between them has either
\* label.
C17_PickupAndDropoff ==
    Planned =>
        /\ Len(segments) >= 2
        /\ segments[1] = PlannedSegment("on_duty", Hour, "Pickup Location")
        /\ segments[Len(segments)]
               = PlannedSegment("on_duty", Hour, "Dropoff Location")
        /\ \A k \in 2..(Len(segments) - 1) :
              segments[k].location
                  \notin {"Pickup Location", "Dropoff Location"}

\* the seven segments of the 30-hour route are planned
C17_Witness ==
    /\ Planned
    /\ route_data = Route(1500, 30 * Hour)
    /\ Len(segments) = 7

\* ceil(a / b)
CeilDiv(a, b) == (a + b - 1) \div b

\* C18: for a route duration D > 11 the interior is a strict alternation
\* drive, off_duty, ..., drive: every drive lasts at most 11 h, every
\* off_duty exactly 10 h, the drives sum to D, there are ceil(D/11) of them
\* and no off_duty follows the last.
C18_LongTrip ==
    Planned /\ LongRoute =>
        LET in == InteriorOf(segments)
        IN  /\ Len(in) % 2 = 1
            /\ \A k \in 1..Len(in) :
                  IF k % 2 = 1
                  THEN /\ in[k].type = "drive"
                       /\ in[k].duration > 0
                       /\ in[k].duration <= 11 * Hour
                  ELSE /\ in[k].type = "off_duty"
                       /\ in[k].duration = 10 * Hour
            /\ SumSegments(in, 1, "drive") = route_data.duration
            /\ (Len(in) + 1) \div 2 = CeilDiv(route_data.duration, 11 * Hour)

\* the route of 22 hours, two full drive chunks, is planned
C18_Witness ==
    /\ Planned
    /\ route_data = Route(1100, 22 * Hour)
    /\ Len(InteriorOf(segments)) = 3

\* miles of the j-th slab of 1,000 miles of a route of m miles
SlabOf(m, j) ==
    IF m - 1000 * (j - 1) < 1000 THEN m - 1000 * (j - 1) ELSE 1000

\* C19: for a route with duration D <= 11 and distance M > 0 the interior
\* holds ceil(M/1000) drive segments, one per slab of 1,000 miles, of
\* duration slab_miles/M * D, summing to D, with exactly one on_duty 0.5 h
\* 'Fueling Stop' between successive drives and none after the last.
C19_ShortTrip ==
    Planned /\ ~LongRoute /\ route_data.distance > 0 =>
        LET in == InteriorOf(segments)
            m == route_data.distance
        IN  /\ Len(in) % 2 = 1
            /\ (Len(in) + 1) \div 2 = CeilDiv(m, 1000)
            /\ \A k \in 1..Len(in) :
                  IF k % 2 = 1
                  THEN /\ in[k].type = "drive"
                       /\ in[k].duration * m
                              = SlabOf(m, (k + 1) \div 2) * route_data.duration
                  ELSE in[k] = PlannedSegment("on_duty", Hour \div 2,
                                              "Fueling Stop")
            /\ SumSegments(in, 1, "drive") = route_data.duration

\* the route of 2,500 miles, three slabs, is planned
C19_Witness ==
    /\ Planned
    /\ route_data = Route(2500, 10 * Hour)
    /\ Len(InteriorOf(segments)) = 5

----------------------------------------------------------------------------
(* C20 *)

\* C20: get_route tries the providers in the order Mapbox, OpenRouteService,
\* estimator, skipping the unconfigured ones, and falls through to the next
\* configured provider when one fails: the estimator is used only after
\* every configured provider has been tried.
C20_FallThrough ==
    route_pc = "returned" =>
        LET tried(p) == \E k \in 1..Len(attempts) : attempts[k] = p
        IN  /\ tried("mapbox") => mapbox_available
            /\ tried("ors") => ors_available
            /\ \A j, k \in 1..Len(attempts) :
                  j < k =>
                      \/ attempts[j] = "mapbox"
                      \/ attempts[j] = "ors" /\ attempts[k] = "estimator"
            /\ tried("estimator") =>
                  /\ mapbox_available => tried("mapbox")
                  /\ ors_available => tried("ors")

----------------------------------------------------------------------------
(* C21 *)

\* C21: get_route never raises: whatever providers are configured and
\* whatever their call comes to, it returns a route with a distance, a
\* duration and a geometry, the estimator's route when no provider
\* succeeded.
C21_NeverRaises ==
    /\ route_pc # "raised"
    /\ route_pc = "returned" =>
          /\ DOMAIN route_result = {"distance", "duration", "geometry"}
          /\ attempts[Len(attempts)] = "estimator" =>
                route_result = MockRoute(request)

----------------------------------------------------------------------------
(* C22 to C27: plan_trip and the DailyRod table.                           *)

\* the request of slot 1 has been answered
Responded1 == handlers[1].phase = "responded"

\* the driver_id of a request names no Driver row
UnknownDriver(body) ==
    body.driver_id # <<>> /\ body.driver_id[1] \notin Drivers

\* C22: a plan request whose driver_id identifies no existing driver (any
\* integer, 0 included) is answered with status 404, and the request
\* creates or updates no DailyRod (requests the server fails on aside).
C22_UnknownDriver404 ==
    (/\ Responded1
     /\ ValidBody(handlers[1].body)
     /\ UnknownDriver(handlers[1].body)
     /\ handlers[1].status # 500)
        => /\ handlers[1].status = 404
           /\ rods = handlers[1].before

\* a longitude outside [-180, 180] or a latitude outside [-90, 90]
OutOfRange(coord) ==
    \/ coord[1] < -180
    \/ coord[1] > 180
    \/ coord[2] < -90
    \/ coord[2] > 90

\* C23: a plan request with a longitude outside [-180, 180] or a latitude
\* outside [-90, 90] in any of its three coordinates is answered with
\* status 400 before the route client, the scheduler or the persistence is
\* called, and the table is unchanged.
C23_BadCoordinates400 ==
    (/\ Responded1
     /\ \/ OutOfRange(handlers[1].body.current_location)
        \/ OutOfRange(handlers[1].body.pickup)
        \/ OutOfRange(handlers[1].body.dropoff))
        => /\ handlers[1].status = 400
           /\ handlers[1].calls = <<>>
           /\ rods = handlers[1].before

\* a second request with a bad latitude, answered over a table with rows
C23_Witness ==
    /\ Responded1
    /\ handlers[1].body.pickup = <<0, -91>>
    /\ ~OutOfRange(handlers[1].body.current_location)
    /\ ~OutOfRange(handlers[1].body.dropoff)
    /\ handlers[1].status = 400
    /\ rods # {}

\* C24: the weekly on-duty total used for a driver is the sum of
\* on_duty_hours over exactly the driver's stored rows dated from eight days
\* before today up to today; rows dated after today are not counted.
C24_WeeklyWindow ==
    (/\ handlers[1].phase \in {"persisting", "responded"}
     /\ handlers[1].status \in {0, 200}
     /\ Truthy(handlers[1].body.driver_id))
        => handlers[1].weekly_used =
               SumOnDuty({r \in handlers[1].before :
                             /\ r.driver = handlers[1].body.driver_id[1]
                             /\ Today - 8 <= r.date
                             /\ r.date <= Today})

\* at most one row per (driver, date)
UniqueTogether ==
    \A r1, r2 \in rods :
        (r1.driver = r2.driver /\ r1.date = r2.date) => r1 = r2

\* a plan with a driver attached has been answered with 200
Planned1 ==
    /\ Responded1
    /\ handlers[1].status = 200
    /\ Truthy(handlers[1].body.driver_id)

\* C25 as stated: the table holds at most one row per (driver, date), and
\* for every daily log the latest plan of a driver returned the row of
\* (driver, date) carries exactly the log's three totals and its entries.
C25_StoredLogsAsStated ==
    /\ UniqueTogether
    /\ Planned1 =>
          \A k \in 1..Len(handlers[1].daily_logs) :
              LET log == handlers[1].daily_logs[k]
              IN  \E r \in Matching(rods, handlers[1].body.driver_id[1],
                                    log.date) :
                      /\ r.entries = log.entries
                      /\ r.driving_hours * Hour
                             = log.totals.driving_hours * 100
                      /\ r.on_duty_hours * Hour
                             = log.totals.on_duty_hours * 100
                      /\ r.off_duty_hours * Hour
                             = log.totals.off_duty_hours * 100

\* C25: the table holds at most one row per (driver, date), and for every
\* daily log the latest plan of a driver returned the row of (driver, date)
\* carries the log's entries and its three totals rounded to hundredths of
\* an hour.
C25_StoredLogs ==
    /\ UniqueTogether
    /\ Planned1 =>
          \A k \in 1..Len(handlers[1].daily_logs) :
              Matching(rods, handlers[1].body.driver_id[1],
                       handlers[1].daily_logs[k].date)
                  = {RodOf(handlers[1].body.driver_id[1],
                           handlers[1].daily_logs[k])}

\* a re-plan has replaced a row of an earlier plan by a different one
C25_Witness ==
    /\ Planned1
    /\ \E old \in handlers[1].before :
          /\ old \notin rods
          /\ \E k \in 1..Len(handlers[1].daily_logs) :
                /\ handlers[1].daily_logs[k].date = old.date
                /\ old.driver = handlers[1].body.driver_id[1]

\* the log of a date in what a slot's request returned
LogOf(id, date) ==
    LET logs == handlers[id].daily_logs
    IN  logs[CHOOSE k \in 1..Len(logs) : logs[k].date = date]

\* C26: when two plan requests for one driver interleave their upserts, the
\* row of each (driver, date) is the log of the request that upserted the
\* date last, and the table never holds two rows for one (driver, date).
C26_LastWriterWins ==
    /\ UniqueTogether
    /\ \A key \in DOMAIN last_upsert :
          Matching(rods, key[1], key[2])
              = {RodOf(key[1], LogOf(last_upsert[key], key[2]))}

\* both requests are answered; one wrote a date last, the other another
\* date, and on both dates their logs differ
C26_Witness ==
    /\ \A id \in Slots : handlers[id].phase = "responded"
    /\ \E k1, k2 \in DOMAIN last_upsert :
          /\ last_upsert[k1] = 1
          /\ last_upsert[k2] = 2
          /\ \E j \in 1..Len(handlers[2].daily_logs) :
                /\ handlers[2].daily_logs[j].date = k1[2]
                /\ handlers[2].daily_logs[j] # LogOf(1, k1[2])
          /\ \E j \in 1..Len(handlers[1].daily_logs) :
                /\ handlers[1].daily_logs[j].date = k2[2]
                /\ handlers[1].daily_logs[j] # LogOf(2, k2[2])

\* C27: for every route duration > 0 the response's route_segments has
\* exactly ceil(duration / 11) elements, numbered 1..n, whose start and end
\* distances cut [0, distance] into equal parts.
C27_RouteSegments ==
    (/\ Responded1
     /\ handlers[1].status = 200
     /\ handlers[1].route.duration > 0)
        => LET route == handlers[1].route
               parts == handlers[1].route_segments
               n == Len(parts)
           IN  /\ n = CeilDiv(route.duration, max_driving_hours)
               /\ \A i \in 1..n :
                     /\ parts[i].segment_number = i
                     /\ parts[i].start_distance
                            = ((i - 1) * route.distance * 1000) \div n
                     /\ parts[i].end_distance
                            = (i * route.distance * 1000) \div n

----------------------------------------------------------------------------
(* C28, C29, C30 *)

\* C28, for the clock: a segment whose duration is exactly zero is skipped
\* whatever the counters are: while it is processed current_time does not
\* advance, so no rest, break or reset is inserted for it.
C28_ZeroSkipped ==
    [][(/\ pc = "segment"
        /\ seg_index <= Len(segments)
        /\ segments[seg_index].duration = 0)
           => current_time' = current_time]_vars

\* C29: every 10-hour off-duty period the scheduler inserts ('Rest Break
\* (10 hours)', '14-hour Reset') resets the driving counter, the on-duty
\* counter and the consecutive-driving counter: right after the insertion
\* all three are zero.
C29_TenHourResets ==
    (/\ pc \in {"drive", "on_duty"}
     /\ daily_entries # <<>>
     /\ daily_entries[Len(daily_entries)].location
            \in {"Rest Break (10 hours)", "14-hour Reset"})
        => /\ daily_driving = 0
           /\ daily_on_duty = 0
           /\ consecutive_driving = 0

\* C30: an off_duty segment shorter than 30 minutes does not reset the
\* consecutive-driving counter.
C30_ShortOffDutyKeepsCounter ==
    [][(/\ pc = "off_duty"
        /\ segments[seg_index].duration < ShortBreakDuration)
           => consecutive_driving' = consecutive_driving]_vars

----------------------------------------------------------------------------
(* C35 *)

\* C35: when hos_scheduler is run on the segment list plan_trip's planner
\* builds (weekly_used <= 70), the driving emitted between two off-duty
\* periods of at least 10 contiguous hours never exceeds 11 hours, and no
\* returned DailyLog has totals.driving_hours above 11.
C35_PlannedDrivingLimit ==
    (Planned /\ weekly_used <= WeeklyLimit) =>
        /\ TourDrivingWithin(AllEntries, 1, 0, 0)
        /\ Returned =>
              \A k \in 1..Len(daily_logs) :
                  daily_logs[k].totals.driving_hours <= DrivingLimit

\* a long trip is returned with a day of exactly 11 hours of driving
C35_Witness ==
    /\ Returned
    /\ LongRoute
    /\ Len(daily_logs) >= 3
    /\ HasLocation(AllEntries, "Rest Break (10 hours)")
    /\ \E k \in 1..Len(daily_logs) :
          daily_logs[k].totals.driving_hours = DrivingLimit

----------------------------------------------------------------------------
(* C32 *)

\* no inserted break or restart among es runs past the midnight that ends
\* the day it starts in
BreaksWithinDay(es) ==
    \A k \in 1..Len(es) :
        es[k].location \in InsertedLocations
            => MinuteOf(es[k].start_time) + es[k].duration <= Day

\* C32: when no inserted break or restart runs past the midnight of the day
\* it starts in, every returned DailyLog has entries that sum to exactly 24
\* hours and are contiguous from 00:00 to the end of the day, also when a
\* segment or an inserted break ends exactly at midnight.
C32_FullDaysWithoutLateBreaks ==
    (Returned /\ BreaksWithinDay(AllEntries)) =>
        \A k \in 1..Len(daily_logs) : FullDay(daily_logs[k].entries)

----------------------------------------------------------------------------
(* C31 *)

\* C31: hos_scheduler is total: every iteration of a segment's while loop
\* consumes a strictly positive chunk of what remains, the function
\* returns, and what it returns is a non-empty list of daily logs.
C31_Total ==
    /\ <>Returned
    /\ [](Returned => Len(daily_logs) >= 1)
    /\ [][(pc \in {"drive", "on_duty", "off_duty"} /\ remaining_duration > 0)
             => /\ remaining_duration' < remaining_duration
                /\ remaining_duration' >= 0]_vars

\* a call returns several days after segments that ran over midnight
C31_Witness ==
    /\ Returned
    /\ Len(segments) >= 2
    /\ Len(daily_logs) >= 3

\* ---- C33: planning the same trip twice ----

\* the request in slot 1 repeats the slot's last request, which was answered
\* with a plan: the same body with a start date and time and a driver, and
\* the same route
Replanned ==
    /\ Planned1
    /\ handlers[1].body.start # <<>>
    /\ handlers[1].previous # <<>>
    /\ handlers[1].previous[1].status = 200
    /\ handlers[1].previous[1].body = handlers[1].body
    /\ handlers[1].previous[1].route = handlers[1].route

\* C33: a request that repeats the last one (same coordinates and route, same
\* start date and time, same driver) is planned from the same weekly_used,
\* gets the same daily_logs and leaves the stored DailyRods as they were
C33_ReplanIdempotent ==
    Replanned =>
        /\ handlers[1].weekly_used = handlers[1].previous[1].weekly_used
        /\ handlers[1].daily_logs = handlers[1].previous[1].daily_logs
        /\ rods = handlers[1].before

\* ---- C34: requests without a driver ----

\* C34: a request without driver_id whose three places are in range and
\* coincide, so that the estimator's route is zero, is answered with 200
C34_CoincidentPlacesAnswered200 ==
    (/\ Responded1
     /\ handlers[1].body.driver_id = <<>>
     /\ ~OutOfRange(handlers[1].body.current_location)
     /\ handlers[1].body.pickup = handlers[1].body.current_location
     /\ handlers[1].body.dropoff = handlers[1].body.current_location)
        => handlers[1].status = 200

====
